---- MODULE Spec2Model ----
(***************************************************************************)
(* Model of the opportunity agent's reconciliation pipeline (src/main.py): *)
(* the processed-ids file with its pruning load, the classifier gate, the  *)
(* two extraction paths, the merge into the sheet and the end-of-run       *)
(* notification.  Providers (mailbox, language model, sheet, notification) *)
(* are the environment: their answers and failures are chosen with \E.     *)
(***************************************************************************)
EXTENDS Integers, Sequences, FiniteSets, TLC

\* ------------------------------------------------------------------------
\* Bounds of the model
\* ------------------------------------------------------------------------
\* longest mailbox search result
MaxMsgs == 2
\* number of runs of main() in one behaviour
MaxRuns == 2

\* ------------------------------------------------------------------------
\* Program constants
\* ------------------------------------------------------------------------
\* load_processed_emails(retention_days=7)
DefaultRetention == 7
\* 24 * 60 * 60 seconds, times the 1000 of timestamp_ms / 1000.0
MsPerDay == 86400000
\* the shift of int(message_id, 16) >> 16, in hexadecimal digits
ShiftDigits == 4
\* the value time.time() returns, in milliseconds: ten days after the epoch
\* (identifiers are scaled accordingly so that every number fits 32 bits)
NowMs == 10 * MsPerDay

None == "None"

\* ------------------------------------------------------------------------
\* Message identifiers: strings of characters, here tuples of 1-char strings
\* ------------------------------------------------------------------------
\* Characters are those from U+0000 to U+00FF (but the backquote, which a
\* string of this notation cannot hold).
\* The whitespace int() and float() skip around a number: blank, tab,
\* newline, carriage return, form feed, vertical tab (0x0b), next line
\* (0x85) and no-break space (0xa0)
IntWhitespace == {" ", "\t", "\n", "\r", "\f", "", "", " "}

\* the whitespace of str.strip() and str.isspace(): the same and the four
\* separators 0x1c, 0x1d, 0x1e, 0x1f
Whitespace == IntWhitespace \cup {"", "", "", ""}

\* cs without the characters of S at its two ends
RECURSIVE Trim(_, _)
Trim(cs, S) ==
    IF Len(cs) = 0 THEN cs
    ELSE IF cs[1] \in S THEN Trim(Tail(cs), S)
    ELSE IF cs[Len(cs)] \in S THEN Trim(SubSeq(cs, 1, Len(cs) - 1), S)
    ELSE cs

\* str.strip(): leading and trailing whitespace removed
Strip(cs) == Trim(cs, Whitespace)

\* the digits of base 16, in either case
HexDigits == <<"0","1","2","3","4","5","6","7","8","9","a","b","c","d","e","f",
               "A","B","C","D","E","F">>

IsHex(c) == \E i \in 1..22 : HexDigits[i] = c

HexVal(c) ==
    IF \E i \in 1..16 : HexDigits[i] = c
    THEN (CHOOSE i \in 1..16 : HexDigits[i] = c) - 1
    ELSE (CHOOSE i \in 17..22 : HexDigits[i] = c) - 7

RECURSIVE HexToInt(_)
HexToInt(s) ==
    IF Len(s) = 0 THEN 0
    ELSE 16 * HexToInt(SubSeq(s, 1, Len(s) - 1)) + HexVal(s[Len(s)])

\* a group of digits as Python's numeric literals allow it: digits with
\* single underscores between them
HexGroup(cs) ==
    /\ Len(cs) > 0
    /\ IsHex(cs[1]) /\ IsHex(cs[Len(cs)])
    /\ \A i \in 1..Len(cs) : IsHex(cs[i]) \/ cs[i] = "_"
    /\ \A i \in 1..(Len(cs) - 1) : ~(cs[i] = "_" /\ cs[i + 1] = "_")

\* the text int(message_id, 16) reads: its whitespace skipped, then a sign,
\* then the prefix 0x or 0X (an underscore may follow it), then the digits
IntText(id) ==
    LET t == Trim(id, IntWhitespace)
        signed == Len(t) > 0 /\ t[1] \in {"-", "+"}
        u == IF signed THEN Tail(t) ELSE t
        prefixed == Len(u) >= 2 /\ u[1] = "0" /\ u[2] \in {"x", "X"}
        v == IF prefixed THEN SubSeq(u, 3, Len(u)) ELSE u
        w == IF prefixed /\ Len(v) > 0 /\ v[1] = "_" THEN Tail(v) ELSE v
    IN  [neg |-> signed /\ t[1] = "-", body |-> w,
         digits |-> SelectSeq(w, IsHex)]

\* int(message_id, 16) raises ValueError on anything else
IntParses(id) == HexGroup(IntText(id).body)

\* int(message_id, 16) >> 16: the number without its last four hex digits,
\* rounded towards minus infinity
timestamp_ms(id) ==
    LET d == IntText(id).digits
        n == Len(d)
        top == IF n <= ShiftDigits THEN 0
               ELSE HexToInt(SubSeq(d, 1, n - ShiftDigits))
        low == IF n <= ShiftDigits THEN d ELSE SubSeq(d, n - ShiftDigits + 1, n)
        rest == \E i \in 1..Len(low) : low[i] # "0"
    IN  IF IntText(id).neg THEN 0 - (top + (IF rest THEN 1 ELSE 0)) ELSE top

\* get_email_age_days, in milliseconds instead of (fractional) days:
\* days = ms / MsPerDay, so that  days < r  iff  ms < r * MsPerDay
get_email_age_days(message_id) ==
    IF IntParses(message_id) THEN NowMs - timestamp_ms(message_id) ELSE 0

\* ten days old: timestamp 0
IdOld == <<"1","0","0","0">>
\* nine days old
IdNine == <<"5","2","6","5","c","0","0","0","0","0","0">>
\* exactly seven days old: timestamp 0xf731400 = 259200000 ms
IdSeven == <<"f","7","3","1","4","0","0","0","0","0","0">>
\* one millisecond younger than seven days
IdAlmost == <<"f","7","3","1","4","0","1","0","0","0","0">>
\* stamped in the future (negative age)
IdFuture == <<"3","f","f","f","f","f","f","f","0","0","0","1">>
\* recent identifiers, the ones a mailbox search of the last hour returns
IdA == <<"3","3","7","f","9","0","0","0","0","0","0","a">>
IdB == <<"3","3","7","f","9","0","0","0","0","0","0","b">>
IdC == <<"3","3","7","f","9","0","0","0","0","0","0","c">>
IdD == <<"3","3","7","f","9","0","0","0","0","0","0","d">>
\* not a hexadecimal number
IdBad == <<"z","z">>

\* ------------------------------------------------------------------------
\* The processed-ids file (PROCESSED_EMAILS_FILE)
\* ------------------------------------------------------------------------
\* kind: "absent" (no file), "invalid" (not JSON), "list" (a JSON array of
\* identifier strings, as json.dump(list(set)) writes it: no duplicates);
\* len: the number of characters of its text
FileAbsent == [kind |-> "absent", ids |-> {}, len |-> 0]
\* a text that is no JSON, here of one character
FileInvalid == [kind |-> "invalid", ids |-> {}, len |-> 1]

\* the length of the text json.dump writes for a list of these identifiers
\* (letters and digits, nothing to escape): two brackets, each identifier
\* between quotes, a comma and a blank between two of them
RECURSIVE TextLen(_)
TextLen(S) ==
    IF S = {} THEN 2
    ELSE IF Cardinality(S) = 1 THEN Len(CHOOSE id \in S : TRUE) + 4
    ELSE Len(CHOOSE id \in S : TRUE) + 4
            + TextLen(S \ {CHOOSE id \in S : TRUE})

FileList(S) == [kind |-> "list", ids |-> S, len |-> TextLen(S)]
\* valid JSON that is no collection: a number, null, true
FileNumber == [kind |-> "number", ids |-> {}, len |-> 1]
\* a file open for writing and not written yet: no bytes, which json.load
\* rejects
FileEmpty == [kind |-> "empty", ids |-> {}, len |-> 0]

\* json.dump(list(S), f) and the close of f, a handle opened for writing
\* some time before: the text goes to the start of the file as it is
\* now.  The open emptied the file; when another process has written a
\* longer text since, what lies past the new text stays, and the file is
\* no JSON (a complete array with the end of another array after it).
json_dump(f, S) ==
    IF TextLen(S) >= f.len THEN FileList(S)
    ELSE [FileInvalid EXCEPT !.len = f.len]

\* line 119: iterating what json.load returned throws TypeError, which
\* nothing in load_processed_emails catches
load_raises(f) == f.kind = "number"

\* the same with the comparison slipped to <=
recent_ids_inclusive(f, retention) ==
    {msg_id \in f.ids : get_email_age_days(msg_id) <= retention * MsPerDay}

recent_ids(f, retention) ==
    {msg_id \in f.ids : get_email_age_days(msg_id) < retention * MsPerDay}

\* the set load_processed_emails returns
load_processed_emails(f, retention) ==
    IF f.kind # "list" THEN {} ELSE recent_ids(f, retention)

\* the file load_processed_emails leaves behind
load_rewrites_file(f, retention) ==
    IF f.kind = "list"
       /\ Cardinality(recent_ids(f, retention)) # Cardinality(f.ids)
    THEN FileList(recent_ids(f, retention))
    ELSE f

\* the same with the file written before the identifier is added
save_before_add(email_id, processed_ids) ==
    [set |-> processed_ids \cup {email_id}, file |-> FileList(processed_ids)]

\* save_processed_email: the new in-memory set, and the file written from it
save_processed_email(email_id, processed_ids) ==
    [set |-> processed_ids \cup {email_id},
     file |-> FileList(processed_ids \cup {email_id})]

\* ------------------------------------------------------------------------
\* Text: a string is looked at as its sequence of words (or of characters)
\* ------------------------------------------------------------------------
Range(s) == {s[i] : i \in 1..Len(s)}

\* needle in hay (Python's substring test), on sequences
Contains(hay, needle) ==
    \E i \in 0..(Len(hay) - Len(needle)) :
        \A j \in 1..Len(needle) : hay[i + j] = needle[j]

\* the words of the texts the model uses
Words(text) ==
    CASE text = "Research Internship opening" -> <<"Research", "Internship", "opening">>
      [] text = "Re: Research Internship opening" -> <<"Re:", "Research", "Internship", "opening">>
      [] text = "Job opportunity abroad" -> <<"Job", "opportunity", "abroad">>
      [] text = "Seminar on graphs" -> <<"Seminar", "on", "graphs">>
      [] text = "please apply" -> <<"please", "apply">>
      [] text = "deadline extended" -> <<"deadline", "extended">>
      [] text = "recruiter@iitm.ac.in" -> <<"recruiter@", "iitm.ac.in">>
      [] text = "spam@external.com" -> <<"spam@", "external.com">>
      [] text = "YES" -> <<"YES">>
      [] text = "Yes, it is." -> <<"Yes", ",", "it", "is", ".">>
      [] text = "NO" -> <<"NO">>
      [] OTHER -> <<text>>

\* str.lower(), word by word
LowerWord(w) ==
    CASE w = "Research" -> "research"
      [] w = "Internship" -> "internship"
      [] w = "Job" -> "job"
      [] w = "Seminar" -> "seminar"
      [] w = "Re:" -> "re:"
      [] w = "YES" -> "yes"
      [] w = "Yes" -> "yes"
      [] w = "NO" -> "no"
      [] OTHER -> w

Lower(ws) == [i \in 1..Len(ws) |-> LowerWord(ws[i])]

TRUSTED_DOMAINS == << <<"iitm.ac.in">> >>

OPPORTUNITY_KEYWORDS ==
    << <<"internship">>, <<"hiring">>, <<"research", "fellowship">>,
       <<"research", "internship">>, <<"fellowship">>, <<"recruiting">>,
       <<"job", "alert">>, <<"job", "opportunity">> >>

\* the same with the domain filter switched off
domain_trusted_always(email_metadata) == TRUE

\* any(domain in email_metadata["sender_email"] for domain in TRUSTED_DOMAINS)
domain_trusted(email_metadata) ==
    \E d \in 1..Len(TRUSTED_DOMAINS) :
        Contains(Words(email_metadata.sender_email), TRUSTED_DOMAINS[d])

email_text_for_search(email_metadata) ==
    Lower(Words(email_metadata.subject) \o Words(email_metadata.body))

\* any(keyword in email_text_for_search for keyword in OPPORTUNITY_KEYWORDS)
keyword_found(email_metadata) ==
    \E k \in 1..Len(OPPORTUNITY_KEYWORDS) :
        Contains(email_text_for_search(email_metadata), OPPORTUNITY_KEYWORDS[k])

\* the same with the answer ignored
ai_check_always(response_text) == TRUE

\* "yes" in response.text.lower()
is_opportunity_ai_check(response_text) ==
    Contains(Lower(Words(response_text)), <<"yes">>)

\* filename.endswith((".pdf", ".docx"))
parsable(filename) == filename \in {"jd.pdf", "jd.docx"}

\* the attachments fetch_and_parse_attachments asks the mailbox for
fetch_and_parse_attachments(attachment_list) ==
    SelectSeq(attachment_list, parsable)

\* what the mailbox holds for each message identifier
MessageOf(id) ==
    CASE id = IdA -> [threadId |-> "T1", sender_email |-> "recruiter@iitm.ac.in",
                      subject |-> "Research Internship opening",
                      body |-> "please apply",
                      attachment_ids |-> <<"logo.png", "jd.pdf">>]
      [] id = IdB -> [threadId |-> "T1", sender_email |-> "recruiter@iitm.ac.in",
                      subject |-> "Re: Research Internship opening",
                      body |-> "deadline extended",
                      attachment_ids |-> <<>>]
      [] id = IdC -> [threadId |-> "T2", sender_email |-> "spam@external.com",
                      subject |-> "Job opportunity abroad",
                      body |-> "please apply",
                      attachment_ids |-> <<"jd.docx">>]
      [] id = IdD -> [threadId |-> "T2", sender_email |-> "recruiter@iitm.ac.in",
                      subject |-> "Seminar on graphs",
                      body |-> "please apply",
                      attachment_ids |-> <<"jd.pdf">>]
      [] OTHER -> [threadId |-> "T2", sender_email |-> "recruiter@iitm.ac.in",
                   subject |-> "Job opportunity abroad",
                   body |-> "deadline extended",
                   attachment_ids |-> <<>>]

\* ------------------------------------------------------------------------
\* Relevance score post-processing (extract_initial_details_with_ai)
\* ------------------------------------------------------------------------
ScoreKey == "Relevance Score (1-10)"

\* the characters of the score strings the model uses
Chars(text) ==
    CASE text = "8/10" -> <<"8", "/", "1", "0">>
      [] text = "11" -> <<"1", "1">>
      [] text = "0" -> <<"0">>
      [] text = "abc" -> <<"a", "b", "c">>
      [] text = " 7 " -> <<" ", "7", " ">>
      [] text = "2.5" -> <<"2", ".", "5">>
      [] text = "3.5" -> <<"3", ".", "5">>
      [] text = "9.51" -> <<"9", ".", "5", "1">>
      [] text = "-4" -> <<"-", "4">>
      [] text = "/10" -> <<"/", "1", "0">>
      [] text = "6 /10" -> <<"6", " ", "/", "1", "0">>
      [] text = "5" -> <<"5">>
      [] text = "inf" -> <<"i", "n", "f">>
      [] text = "nan" -> <<"n", "a", "n">>
      [] text = "" -> <<>>
      [] text = "N/A" -> <<"N", "/", "A">>
      [] OTHER -> <<"?">>

Digits == <<"0","1","2","3","4","5","6","7","8","9">>

IsDigit(c) == \E i \in 1..10 : Digits[i] = c

DigitVal(c) == (CHOOSE i \in 1..10 : Digits[i] = c) - 1

\* score.split('/')[0] when the score holds a '/', the score itself when
\* it holds none: the characters before the first '/'
RECURSIVE BeforeSlash(_)
BeforeSlash(cs) ==
    IF Len(cs) = 0 \/ cs[1] = "/" THEN <<>>
    ELSE <<cs[1]>> \o BeforeSlash(Tail(cs))

RECURSIVE DecToInt(_)
DecToInt(cs) ==
    IF Len(cs) = 0 THEN 0
    ELSE 10 * DecToInt(SubSeq(cs, 1, Len(cs) - 1)) + DigitVal(cs[Len(cs)])

\* position of the first character of cs that is in S, or 0
FirstOf(cs, S) ==
    IF \E i \in 1..Len(cs) : cs[i] \in S
    THEN CHOOSE i \in 1..Len(cs) : cs[i] \in S /\ \A j \in 1..(i - 1) : cs[j] \notin S
    ELSE 0

\* position of the first '.', or 0
DotAt(cs) == FirstOf(cs, {"."})

\* digits with single underscores between them
DecGroup(cs) ==
    /\ Len(cs) > 0
    /\ IsDigit(cs[1]) /\ IsDigit(cs[Len(cs)])
    /\ \A i \in 1..Len(cs) : IsDigit(cs[i]) \/ cs[i] = "_"
    /\ \A i \in 1..(Len(cs) - 1) : ~(cs[i] = "_" /\ cs[i + 1] = "_")

RECURSIVE DropLeadingZeros(_)
DropLeadingZeros(ds) ==
    IF Len(ds) > 0 /\ ds[1] = "0" THEN DropLeadingZeros(Tail(ds)) ELSE ds

RECURSIVE DropTrailingZeros(_)
DropTrailingZeros(ds) ==
    IF Len(ds) > 0 /\ ds[Len(ds)] = "0"
    THEN DropTrailingZeros(SubSeq(ds, 1, Len(ds) - 1)) ELSE ds

Zeros(n) == [i \in 1..n |-> "0"]

\* the letters of "infinity" and "nan" in lower case
LowerText(cs) ==
    [i \in 1..Len(cs) |->
        CASE cs[i] = "I" -> "i" [] cs[i] = "N" -> "n" [] cs[i] = "F" -> "f"
          [] cs[i] = "T" -> "t" [] cs[i] = "Y" -> "y" [] cs[i] = "A" -> "a"
          [] OTHER -> cs[i]]

\* digit i of the fraction 0.ds
DigitAt(ds, i) == IF i <= Len(ds) THEN DigitVal(ds[i]) ELSE 0

\* 0.a <= 0.b for two sequences of digits
FracLE(a, b) ==
    \A i \in 1..Len(a) :
        DigitAt(a, i) > DigitAt(b, i) =>
            \E j \in 1..(i - 1) : DigitAt(a, j) < DigitAt(b, j)

\* exponents of more than ExpDigits digits count as 10^ExpDigits: with a
\* text of fewer characters than that the number is then infinite or zero
ExpDigits == 6

ExpMagnitude(d) == IF Len(d) > ExpDigits THEN 10^ExpDigits ELSE DecToInt(d)

\* a leading sign, of the number or of its exponent
Signed(t) == Len(t) > 0 /\ t[1] \in {"-", "+"}

Unsigned(t) == IF Signed(t) THEN Tail(t) ELSE t

Negative(t) == Signed(t) /\ t[1] = "-"

\* the exponent after e or E: a sign and a group of digits
ExpValue(xs) ==
    [ok |-> DecGroup(Unsigned(xs)),
     val |-> IF Negative(xs)
             THEN 0 - ExpMagnitude(DropLeadingZeros(SelectSeq(xs, IsDigit)))
             ELSE ExpMagnitude(DropLeadingZeros(SelectSeq(xs, IsDigit)))]

\* 2^1024 - 2^970, half-way between the largest double and 2^1024: from
\* here on float() returns inf
OverflowDigits ==
    <<"1","7","9","7","6","9","3","1","3","4","8","6","2","3","1","5","8","0","7","9",
      "3","7","2","8","9","7","1","4","0","5","3","0","3","4","1","5","0","7","9","9",
      "3","4","1","3","2","7","1","0","0","3","7","8","2","6","9","3","6","1","7","3",
      "7","7","8","9","8","0","4","4","4","9","6","8","2","9","2","7","6","4","7","5",
      "0","9","4","6","6","4","9","0","1","7","9","7","7","5","8","7","2","0","7","0",
      "9","6","3","3","0","2","8","6","4","1","6","6","9","2","8","8","7","9","1","0",
      "9","4","6","5","5","5","5","4","7","8","5","1","9","4","0","4","0","2","6","3",
      "0","6","5","7","4","8","8","6","7","1","5","0","5","8","2","0","6","8","1","9",
      "0","8","9","0","2","0","0","0","7","0","8","3","8","3","6","7","6","2","7","3",
      "8","5","4","8","4","5","8","1","7","7","1","1","5","3","1","7","6","4","4","7",
      "5","7","3","0","2","7","0","0","6","9","8","5","5","5","7","1","3","6","6","9",
      "5","9","6","2","2","8","4","2","9","1","4","8","1","9","8","6","0","8","3","4",
      "9","3","6","4","7","5","2","9","2","7","1","9","0","7","4","1","6","8","4","4",
      "4","3","6","5","5","1","0","7","0","4","3","4","2","7","1","1","5","5","9","6",
      "9","9","5","0","8","0","9","3","0","4","2","8","8","0","1","7","7","9","0","4",
      "1","7","4","4","9","7","7","9","2">>

FloatErr == [kind |-> "err", int |-> <<>>, frac |-> <<>>]

\* the double 0.D * 10^p, D being significant digits (no zero at either
\* end): infinite, or the number with the point set
Scaled(D, p) ==
    IF Len(D) = 0 THEN [FloatErr EXCEPT !.kind = "num"]
    ELSE IF p > Len(OverflowDigits)
            \/ (p = Len(OverflowDigits) /\ FracLE(OverflowDigits, D))
    THEN [FloatErr EXCEPT !.kind = "inf"]
    ELSE IF p <= 0
    THEN [kind |-> "num", int |-> <<>>, frac |-> Zeros(0 - p) \o D]
    ELSE IF p >= Len(D)
    THEN [kind |-> "num", int |-> D \o Zeros(p - Len(D)), frac |-> <<>>]
    ELSE [kind |-> "num", int |-> SubSeq(D, 1, p),
          frac |-> SubSeq(D, p + 1, Len(D))]

\* the digits before the point (no leading zero), those after it and the
\* exponent
Significant(id, fd, exp) ==
    Scaled(DropTrailingZeros(IF Len(id) > 0 THEN id \o fd
                             ELSE DropLeadingZeros(fd)),
           (IF Len(id) > 0 THEN Len(id)
            ELSE Len(DropLeadingZeros(fd)) - Len(fd)) + exp)

\* the text before the point, the text after it and the exponent
Mantissa(ip, fp, x) ==
    IF /\ Len(ip) + Len(fp) > 0
       /\ Len(ip) > 0 => DecGroup(ip)
       /\ Len(fp) > 0 => DecGroup(fp)
       /\ x.ok
    THEN Significant(DropLeadingZeros(SelectSeq(ip, IsDigit)),
                     SelectSeq(fp, IsDigit), x.val)
    ELSE FloatErr

\* the text before the exponent, with the position of its point
Pointed(m, d, x) ==
    Mantissa(IF d = 0 THEN m ELSE SubSeq(m, 1, d - 1),
             IF d = 0 THEN <<>> ELSE SubSeq(m, d + 1, Len(m)), x)

\* the text with the position of its e or E
Exponented(cs, e) ==
    IF e = 0 THEN Pointed(cs, DotAt(cs), [ok |-> TRUE, val |-> 0])
    ELSE Pointed(SubSeq(cs, 1, e - 1), DotAt(SubSeq(cs, 1, e - 1)),
                 ExpValue(SubSeq(cs, e + 1, Len(cs))))

\* float(text) for unsigned text: [kind, int, frac], int the digits before
\* the point without leading zeros, frac the digits after it without
\* trailing zeros, of the decimal number the text denotes.  kind "err" is
\* Python's ValueError.
ParseUnsigned(cs) ==
    IF LowerText(cs) \in {<<"i","n","f">>, <<"i","n","f","i","n","i","t","y">>}
    THEN [FloatErr EXCEPT !.kind = "inf"]
    ELSE IF LowerText(cs) = <<"n","a","n">>
    THEN [FloatErr EXCEPT !.kind = "nan"]
    ELSE Exponented(cs, FirstOf(cs, {"e", "E"}))

\* float(score.strip()), with its sign
ParseFloat(cs) ==
    [neg |-> Negative(Strip(cs))] @@ ParseUnsigned(Unsigned(Strip(cs)))

\* the largest number of digits of an integer the model holds as a number
SmallDigits == 9

\* floor(log2(n)) for n >= 1, and -1 for 0: the binade of n + 0.5
RECURSIVE Log2(_)
Log2(n) == IF n = 0 THEN 0 - 1 ELSE IF n = 1 THEN 0 ELSE 1 + Log2(n \div 2)

\* twice the fraction 0.ds (below one half): a digit doubles, and takes a
\* carry when the digit after it is 5 or more
TimesTwo(ds) ==
    [i \in 1..Len(ds) |->
        Digits[((2 * DigitVal(ds[i])
                 + (IF DigitAt(ds, i + 1) >= 5 THEN 1 ELSE 0)) % 10) + 1]]

\* the fraction digits of 10 * 2^-55: ten times half the distance between
\* neighbouring doubles in [0.25, 0.5)
TenQuarterUlp ==
    <<"0","0","0","0","0","0","0","0","0","0","0","0","0","0","0","2","7","7","5","5",
      "5","7","5","6","1","5","6","2","8","9","1","3","5","1","0","5","9","0","7","9",
      "1","7","0","2","2","7","0","5","0","7","8","1","2","5">>

\* ten times half the distance between neighbouring doubles in
\* [2^e, 2^(e+1)), e >= -2
RECURSIVE TenHalfUlpAt(_)
TenHalfUlpAt(e) ==
    IF e < 0 - 1 THEN TenQuarterUlp ELSE TimesTwo(TenHalfUlpAt(e - 1))

\* 1 - 0.ds for digits ds without a zero at the end
Complement(ds) ==
    [i \in 1..Len(ds) |->
        Digits[(IF i = Len(ds) THEN 10 ELSE 9) - DigitVal(ds[i]) + 1]]

\* the decimal number n + 0.frac is so close to n + 0.5 that its double is
\* n + 0.5: within half the distance between neighbouring doubles, which
\* below 0.5, a power of two, is half of what it is above
NearTie(n, frac) ==
    /\ Len(frac) > 0
    /\ \/ frac[1] = "5" /\ FracLE(Tail(frac), TenHalfUlpAt(Log2(n)))
       \/ /\ frac[1] = "4" /\ Len(frac) > 1
          /\ FracLE(Complement(Tail(frac)),
                    TenHalfUlpAt(IF n = 0 THEN Log2(n) - 1 ELSE Log2(n)))

\* the integer next to |x| = n + 0.frac, a tie going to the even one
RoundMagnitude(n, frac) ==
    IF NearTie(n, frac) THEN n + (n % 2)
    ELSE IF Len(frac) > 0 /\ DigitVal(frac[1]) >= 5 THEN n + 1
    ELSE n

\* round(x) of Python 3 for the double of |x| < 10^SmallDigits: to the
\* nearest integer, a tie to the even one
RoundHalfEven(f) ==
    IF f.neg THEN 0 - RoundMagnitude(DecToInt(f.int), f.frac)
    ELSE RoundMagnitude(DecToInt(f.int), f.frac)

Min(a, b) == IF a < b THEN a ELSE b
Max(a, b) == IF a > b THEN a ELSE b

\* str(n) for the integers the clamp leaves
DecStr(n) == <<"1","2","3","4","5","6","7","8","9","10">>[n]

\* max(1, min(10, round(score))); a number of more than SmallDigits digits
\* is past either end of the clamp
clamp_round(f) ==
    IF Len(f.int) > SmallDigits THEN (IF f.neg THEN 1 ELSE 10)
    ELSE Max(1, Min(10, RoundHalfEven(f)))

\* the value a parsed score leaves under the score key
score_of(f) ==
    CASE f.kind = "num" -> DecStr(clamp_round(f))
      [] f.kind = "inf" -> "raise"
      [] OTHER -> "3"

\* lines 324-336: the value written back under the score key; "raise" when
\* round() raises OverflowError, which only the outer handler catches;
\* round(nan) raises ValueError, which the inner handler catches
normalize_score(score) == score_of(ParseFloat(BeforeSlash(Chars(score))))

\* ------------------------------------------------------------------------
\* Dictionaries (JSON objects): functions from keys to strings
\* ------------------------------------------------------------------------
EmptyDict == [k \in {} |-> ""]

Get(d, k, default) == IF k \in DOMAIN d THEN d[k] ELSE default

\* A language-model response: kind "raise" (generate_content threw),
\* "nojson" (no braces in the text), "badjson" (json.loads fails) or "dict"
\* (the text between the first '{' and the last '}' parses to the object d)
RaiseResp == [kind |-> "raise", d |-> EmptyDict]
NoJsonResp == [kind |-> "nojson", d |-> EmptyDict]
BadJsonResp == [kind |-> "badjson", d |-> EmptyDict]
DictResp(d) == [kind |-> "dict", d |-> d]

\* a Python value that is None or a dictionary
NoneVal == [isNone |-> TRUE, d |-> EmptyDict]
DictVal(d) == [isNone |-> FALSE, d |-> d]

\* Python truthiness of such a value: not None and not the empty dict
Truthy(v) == ~v.isNone /\ v.d # EmptyDict

\* parse_ai_response on the text of a response that did not throw
parse_ai_response(resp) ==
    IF resp.kind = "dict" THEN DictVal(resp.d) ELSE NoneVal

\* extract_initial_details_with_ai, lines 318-342
extract_initial_details_with_ai(resp) ==
    IF resp.kind = "raise" THEN NoneVal
    ELSE LET extracted_data == parse_ai_response(resp)
         IN  IF Truthy(extracted_data) /\ ScoreKey \in DOMAIN extracted_data.d
             THEN IF normalize_score(extracted_data.d[ScoreKey]) = "raise"
                  THEN NoneVal
                  ELSE DictVal([extracted_data.d EXCEPT
                                  ![ScoreKey] = normalize_score(@)])
             ELSE extracted_data

\* update_details_with_ai, lines 377-378; "raise" propagates to the caller
update_details_with_ai(resp) == parse_ai_response(resp)

\* ------------------------------------------------------------------------
\* The sheet: header row 3 and the data rows below it
\* ------------------------------------------------------------------------
\* the header row (a selection of the nineteen columns format_row_from_json
\* fills: the key column, three extracted fields, the subject)
column_headers ==
    <<"Thread ID", "Application Deadline", "Role Title", ScoreKey, "Subject">>

\* cell i of a row; a cell past its end is empty
Cell(row, i) == IF i <= Len(row) THEN row[i] ELSE ""

\* worksheet.row_values: the row without its trailing empty cells
RECURSIVE row_values(_)
row_values(row) ==
    IF Len(row) > 0 /\ row[Len(row)] = ""
    THEN row_values(SubSeq(row, 1, Len(row) - 1))
    ELSE row

\* the same with the slice one row further down
col_values_skip_first(sh) == {Cell(sh[r], 1) : r \in 2..Len(sh)}

\* set(worksheet.col_values(1)[3:])
col_values(sh) == {Cell(sh[r], 1) : r \in 1..Len(sh)}

\* worksheet.find(query): the first row holding a cell equal to query, 0 for
\* None
find(sh, query) ==
    LET hits == {r \in 1..Len(sh) : \E c \in 1..Len(sh[r]) : sh[r][c] = query}
    IN  IF hits = {} THEN 0 ELSE CHOOSE r \in hits : \A q \in hits : r <= q

\* format_row_from_json
format_row_from_json(thread_id, email_details, extracted_data) ==
    <<thread_id,
      Get(extracted_data, "Application Deadline", "N/A"),
      Get(extracted_data, "Role Title", "N/A"),
      Get(extracted_data, ScoreKey, "N/A"),
      email_details.subject>>

\* line 566: header -> cell of the row under it ("" past the row's end); for
\* a header that occurs twice the last occurrence wins, as in a dict
original_data_dict(headers, values) ==
    [h \in Range(headers) |->
        LET i == CHOOSE k \in 1..Len(headers) :
                    headers[k] = h /\ \A j \in (k + 1)..Len(headers) : headers[j] # h
        IN  Cell(values, i)]

\* the same without the "N/A" test
changed_keys_no_sentinel(original, delta) ==
    {key \in DOMAIN delta :
        key \in DOMAIN original /\ original[key] # delta[key]}

\* line 576: the keys of the delta that overwrite the merged copy
changed_keys(original, delta) ==
    {key \in DOMAIN delta :
        key \in DOMAIN original /\ delta[key] # "N/A" /\ original[key] # delta[key]}

\* lines 572-579: the merged copy
merged_data(original, delta) ==
    [key \in DOMAIN original |->
        IF key \in changed_keys(original, delta) THEN delta[key] ELSE original[key]]

\* line 588
final_row_values(headers, merged) ==
    [i \in 1..Len(headers) |-> Get(merged, headers[i], "")]

\* the same with the row replaced by the written values
update_row_truncating(row, vals) == vals

\* worksheet.update(values=[vals], range_name='A<row>'): the cells of the
\* row from column A on are overwritten, the cells past vals are kept
update_row(row, vals) ==
    row_values([i \in 1..Max(Len(row), Len(vals)) |->
                    IF i <= Len(vals) THEN vals[i] ELSE row[i]])

\* lines 581-582: (row, column) of the cells to highlight
cells_to_format(headers, row, keys) ==
    {<<row, CHOOSE k \in 1..Len(headers) :
                headers[k] = key /\ \A j \in 1..(k - 1) : headers[j] # key>> :
        key \in keys}

\* ------------------------------------------------------------------------
\* Inputs: what the providers may answer
\* ------------------------------------------------------------------------
\* texts of the YES/NO answer of the opportunity check
AiTexts == {"Yes, it is.", "NO"}

\* relevance scores as the language model may write them
ScoreInputs == {"8/10", "11", "0", "abc", "inf"}

FullExtraction(score) ==
    [k \in {"Application Deadline", "Role Title", ScoreKey} |->
        CASE k = "Application Deadline" -> "2025-07-01"
          [] k = "Role Title" -> "Intern"
          [] OTHER -> score]

\* responses to the initial-extraction prompt
InitialResponses ==
    {RaiseResp, NoJsonResp, BadJsonResp, DictResp(EmptyDict),
     DictResp([k \in {"Role Title"} |-> "Intern"])}
    \cup {DictResp(FullExtraction(sc)) : sc \in ScoreInputs}

\* responses to the delta-extraction prompt
DeltaResponses ==
    {RaiseResp, NoJsonResp, DictResp(EmptyDict),
     DictResp([k \in {"Application Deadline"} |-> "2025-08-01"]),
     DictResp([k \in {"Application Deadline", "Role Title"} |->
                  IF k = "Role Title" THEN "Lead" ELSE "N/A"]),
     DictResp([k \in {"Role Title"} |-> ""]),
     DictResp([k \in {"Salary", "Role Title"} |->
                  IF k = "Salary" THEN "5" ELSE "Analyst"]),
     DictResp([k \in {ScoreKey} |-> "8/10"])}

RowT1 == <<"T1", "2025-07-01", "Intern", "8", "Research Internship opening", "note">>
RowT2 == <<"T2", "N/A", "Analyst">>

InitialSheets == {<<>>, <<RowT2, RowT1>>}

InitialFiles == {FileAbsent, FileList({IdOld, IdA})}

\* the messages of the last hour, newest first
AllMail == <<IdD, IdC, IdB, IdA>>

RECURSIVE SubSeqs(_)
SubSeqs(q) ==
    IF q = <<>> THEN {<<>>}
    ELSE SubSeqs(Tail(q)) \cup {<<Head(q)>> \o t : t \in SubSeqs(Tail(q))}

\* search results: up to MaxMsgs of them, in that order
Mailboxes == {m \in SubSeqs(AllMail) : Len(m) <= MaxMsgs}

VARIABLES
    file,                 \* processed_emails.json
    sheet,                \* the data rows of the worksheet
    mailbox,              \* what the mailbox search returns when it succeeds
    telegram_configured,  \* TELEGRAM_BOT_TOKEN and TELEGRAM_CHAT_ID are set
    retention_days,       \* the argument of load_processed_emails
    pc,                   \* where main() stands, see below
    run,                  \* number of runs of main() started
    processed_email_ids,
    existing_thread_ids,
    messages,
    idx,                  \* position of the for loop in messages
    new_opportunities_to_notify,
    updated_opportunities_to_notify,
    cur,                  \* cell.row, original_data_dict and merged_data of
                          \* the update in progress
    lastOps,              \* provider calls of the iteration, in order
    lastFails,            \* provider calls of the iteration that threw
    sent,                 \* requests.post calls of this run
    rowsWritten,          \* rows appended or updated by this run
    startProcessed,       \* processed_email_ids as loaded by this run
    loadedFrom,           \* the file as the last load found it
    prevMessages,         \* messages of the previous run
    prevDone,             \* the previous run returned from main()
    extRun,               \* run during which a row was last deleted by hand
    extMid,               \* a row was deleted by hand between the
                          \* worksheet.find and the end of an update
    lastMerge,            \* the last merge of the update path
    lastAiText,           \* the answer of the AI check of the iteration, or ""
    crashed,              \* the message whose append was followed by a kill
    parked                \* the variables of a second process, if any

\* pc: "idle" (not started), "pruning" (the load has read the file and
\* found old identifiers, line 126), "pruned" (it has opened the file for
\* writing, line 128), "loaded" (line 492 done), "loop" (at the top of
\* the for loop), "found" (worksheet.find returned a cell, line 559),
\* "merged" (has_changed is true, line 586), "saving" (line 640 reached),
\* "dumping" (the file is open for writing, line 135), "done" (main()
\* returned), "aborted" (an exception left main(), or the process was
\* killed)

vars == <<file, sheet, mailbox, telegram_configured, retention_days, pc, run,
          processed_email_ids, existing_thread_ids, messages, idx,
          new_opportunities_to_notify, updated_opportunities_to_notify, cur,
          lastOps, lastFails, sent, rowsWritten, startProcessed, loadedFrom,
          prevMessages, prevDone, extRun, extMid, lastMerge, lastAiText,
          crashed, parked>>

env == <<mailbox, telegram_configured, retention_days, crashed>>
hist == <<startProcessed, loadedFrom, prevMessages, prevDone>>

\* tried: update_details_with_ai returned; done: the merge ran and the row
\* is as the merge left it
NoMerge == [tried |-> FALSE, done |-> FALSE, row |-> 0, before |-> <<>>,
            delta |-> EmptyDict, after |-> <<>>, sheetBefore |-> <<>>]

NoCur == [row |-> 0, before |-> <<>>, original |-> EmptyDict,
          delta |-> EmptyDict, merged |-> EmptyDict]

NoCrash == [id |-> <<>>, run |-> 0]

\* the variables of main() of a process that has not started a run
IdleProcess ==
    [pc |-> "idle", processed_email_ids |-> {}, existing_thread_ids |-> {},
     messages |-> <<>>, idx |-> 1, new_opportunities_to_notify |-> <<>>,
     updated_opportunities_to_notify |-> <<>>, sent |-> 0, rowsWritten |-> 0,
     startProcessed |-> {}, cur |-> NoCur, lastOps |-> <<>>, lastFails |-> {},
     lastMerge |-> NoMerge, lastAiText |-> ""]

NoProcess == [IdleProcess EXCEPT !.pc = "none"]

\* No second process works on the file and the sheet.  Then nothing can
\* read or write the file between two steps of main(), and the steps of
\* lines 492-498 and of lines 134-136 are taken as one.
Alone == parked.pc = "none"

\* the variables of main() before the first run
Fresh ==
    /\ pc = "idle"
    /\ processed_email_ids = {}
    /\ existing_thread_ids = {}
    /\ messages = <<>>
    /\ idx = 1
    /\ new_opportunities_to_notify = <<>>
    /\ updated_opportunities_to_notify = <<>>
    /\ cur = NoCur
    /\ lastOps = <<>>
    /\ lastFails = {}
    /\ sent = 0
    /\ rowsWritten = 0
    /\ startProcessed = {}
    /\ loadedFrom = FileAbsent
    /\ prevMessages = <<>>
    /\ prevDone = FALSE
    /\ extRun = 0
    /\ extMid = FALSE
    /\ lastMerge = NoMerge
    /\ lastAiText = ""
    /\ crashed = NoCrash

Init ==
    /\ file \in InitialFiles
    /\ sheet \in InitialSheets
    /\ mailbox \in Mailboxes
    /\ telegram_configured \in BOOLEAN
    /\ retention_days = DefaultRetention
    /\ run = 0
    /\ Fresh
    /\ parked = NoProcess

\* ------------------------------------------------------------------------
\* main(), lines 477-503: the start of a run
\* ------------------------------------------------------------------------
\* get_emails: the search result, [] when the listing throws HttpError
get_emails(listOk) == IF listOk THEN mailbox ELSE <<>>

\* how lines 494-498 end: both calls return ("ok"), col_values throws
\* ("sheet_col"), the listing throws HttpError, which get_emails catches
\* ("http_error"), the listing throws anything else ("mailbox_list")
StartOutcomes == {"ok", "sheet_col", "http_error", "mailbox_list"}

\* lines 481-490 throw: authenticate_google_services, configure_gemini,
\* open_by_key or the read of resume.txt; the run ends before line 492
StartupFails ==
    /\ pc \in {"idle", "done", "aborted"}
    /\ run < MaxRuns
    /\ run' = run + 1
    /\ pc' = "aborted"
    /\ lastOps' = <<>>
    /\ lastFails' = {"startup"}
    /\ new_opportunities_to_notify' = <<>>
    /\ updated_opportunities_to_notify' = <<>>
    /\ sent' = 0
    /\ rowsWritten' = 0
    /\ prevMessages' = messages
    /\ prevDone' = (pc = "done")
    /\ lastMerge' = NoMerge
    /\ lastAiText' = ""
    /\ UNCHANGED <<file, sheet, env, parked, processed_email_ids,
                   existing_thread_ids, messages, idx, cur, startProcessed,
                   loadedFrom, extRun, extMid>>

\* lines 494-503
read_known(outcome) ==
    /\ existing_thread_ids' =
          IF outcome = "sheet_col" THEN {} ELSE col_values(sheet)
    /\ messages' = get_emails(outcome = "ok")
    /\ lastOps' = IF outcome = "sheet_col" THEN <<"sheet_col">>
                  ELSE <<"sheet_col", "mailbox_list">>
    /\ lastFails' = CASE outcome = "ok" -> {}
                      [] outcome = "sheet_col" -> {"sheet_col"}
                      [] OTHER -> {"mailbox_list"}
    /\ pc' = IF outcome \in {"sheet_col", "mailbox_list"} THEN "aborted"
             ELSE IF get_emails(outcome = "ok") = <<>> THEN "done"
             ELSE "loop"

\* lines 477-492, and lines 494-503 with them when the process is alone;
\* otherwise the step ends when the file has been read (line 117), before
\* the rewrite of lines 128-129
StartRun ==
    /\ pc \in {"idle", "done", "aborted"}
    /\ run < MaxRuns
    /\ ~load_raises(file)
    /\ run' = run + 1
    /\ processed_email_ids' = load_processed_emails(file, retention_days)
    /\ file' = IF Alone THEN load_rewrites_file(file, retention_days) ELSE file
    /\ idx' = 1
    /\ new_opportunities_to_notify' = <<>>
    /\ updated_opportunities_to_notify' = <<>>
    /\ cur' = NoCur
    /\ sent' = 0
    /\ rowsWritten' = 0
    /\ startProcessed' = load_processed_emails(file, retention_days)
    /\ loadedFrom' = file
    /\ prevMessages' = messages
    /\ prevDone' = (pc = "done")
    /\ lastMerge' = NoMerge
    /\ lastAiText' = ""
    /\ IF Alone
       THEN \E outcome \in StartOutcomes : read_known(outcome)
       ELSE /\ pc' = IF load_rewrites_file(file, retention_days) = file
                    THEN "loaded" ELSE "pruning"
            /\ lastOps' = <<>>
            /\ lastFails' = {}
            /\ UNCHANGED <<existing_thread_ids, messages>>
    /\ UNCHANGED <<sheet, env, parked, extRun, extMid>>

\* lines 494-503 on their own
ReadKnown ==
    /\ pc = "loaded"
    /\ \E outcome \in StartOutcomes : read_known(outcome)
    /\ UNCHANGED <<file, sheet, env, parked, run, processed_email_ids, idx,
                   new_opportunities_to_notify,
                   updated_opportunities_to_notify, cur, sent, rowsWritten,
                   hist, extRun, extMid, lastMerge, lastAiText>>

\* line 128 on its own: the load opens the file for writing, which empties
\* it
PruneOpen ==
    /\ pc = "pruning"
    /\ file' = FileEmpty
    /\ pc' = "pruned"
    /\ UNCHANGED <<sheet, env, parked, run, processed_email_ids,
                   existing_thread_ids, messages, idx,
                   new_opportunities_to_notify,
                   updated_opportunities_to_notify, cur, lastOps, lastFails,
                   sent, rowsWritten, hist, extRun, extMid, lastMerge,
                   lastAiText>>

\* line 129 on its own: the dump of the recent identifiers
PruneDump ==
    /\ pc = "pruned"
    /\ file' = json_dump(file, processed_email_ids)
    /\ pc' = "loaded"
    /\ UNCHANGED <<sheet, env, parked, run, processed_email_ids,
                   existing_thread_ids, messages, idx,
                   new_opportunities_to_notify,
                   updated_opportunities_to_notify, cur, lastOps, lastFails,
                   sent, rowsWritten, hist, extRun, extMid, lastMerge,
                   lastAiText>>

\* ------------------------------------------------------------------------
\* main(), lines 506-641: one iteration of the message loop
\* ------------------------------------------------------------------------
InLoop == pc = "loop" /\ idx <= Len(messages)

msg_id == messages[idx]

\* rows a step wrote: its append or update calls that did not throw
Wrote(ops, fails) ==
    Cardinality({i \in 1..Len(ops) :
        ops[i] \in {"sheet_append", "sheet_update"} /\ ops[i] \notin fails})

\* the end of an iteration: the provider calls it made (ops) and those that
\* threw (fails), whether line 640 is reached, the sheet, the known threads
\* and the two notification queues it leaves, and whether an exception left
\* main().  Alone, save_processed_email is part of the step.
Iterate(ops, fails, saved, sh, known, newN, updN, aborted, merge, answer) ==
    /\ lastOps' = ops
    /\ lastAiText' = answer
    /\ lastFails' = fails
    /\ rowsWritten' = rowsWritten + Wrote(ops, fails)
    /\ sent' = sent
    /\ processed_email_ids' =
          IF saved /\ Alone
          THEN save_processed_email(msg_id, processed_email_ids).set
          ELSE processed_email_ids
    /\ file' =
          IF saved /\ Alone
          THEN save_processed_email(msg_id, processed_email_ids).file
          ELSE file
    /\ sheet' = sh
    /\ existing_thread_ids' = known
    /\ new_opportunities_to_notify' = newN
    /\ updated_opportunities_to_notify' = updN
    /\ pc' = IF aborted THEN "aborted"
             ELSE IF saved /\ ~Alone THEN "saving"
             ELSE "loop"
    /\ idx' = IF aborted \/ (saved /\ ~Alone) THEN idx ELSE idx + 1
    /\ cur' = NoCur
    /\ lastMerge' = merge
    /\ UNCHANGED <<env, parked, run, messages, hist, extRun, extMid>>

\* line 134 and line 135: the add to the set and the open for writing,
\* which empties the file
SaveOpen ==
    /\ pc = "saving"
    /\ processed_email_ids' = save_processed_email(msg_id, processed_email_ids).set
    /\ file' = FileEmpty
    /\ pc' = "dumping"
    /\ UNCHANGED <<sheet, env, parked, run, existing_thread_ids, messages, idx,
                   new_opportunities_to_notify,
                   updated_opportunities_to_notify, cur, lastOps, lastFails,
                   sent, rowsWritten, hist, extRun, extMid, lastMerge,
                   lastAiText>>

\* line 136, and the next turn of the loop
SaveDump ==
    /\ pc = "dumping"
    /\ file' = json_dump(file, processed_email_ids)
    /\ pc' = "loop"
    /\ idx' = idx + 1
    /\ UNCHANGED <<sheet, env, parked, run, processed_email_ids,
                   existing_thread_ids, messages,
                   new_opportunities_to_notify,
                   updated_opportunities_to_notify, cur, lastOps, lastFails,
                   sent, rowsWritten, hist, extRun, extMid, lastMerge,
                   lastAiText>>

\* an iteration that touches neither the sheet nor the queues
Plain(ops, fails, saved, aborted, answer) ==
    Iterate(ops, fails, saved, sheet, existing_thread_ids,
            new_opportunities_to_notify, updated_opportunities_to_notify,
            aborted, NoMerge, answer)

\* the same with the test made after the metadata fetch
SkipAfterMetadata ==
    /\ InLoop
    /\ msg_id \in processed_email_ids
    /\ Plain(<<"get_metadata">>, {}, FALSE, FALSE, "")

\* lines 508-509
SkipProcessed ==
    /\ InLoop
    /\ msg_id \in processed_email_ids
    /\ Plain(<<>>, {}, FALSE, FALSE, "")

\* lines 512-515: get_email_metadata returned None
MetadataFails ==
    /\ InLoop
    /\ msg_id \notin processed_email_ids
    /\ Plain(<<"get_metadata">>, {"get_metadata"}, TRUE, FALSE, "")

\* lines 518-521
RejectDomain ==
    /\ InLoop
    /\ msg_id \notin processed_email_ids
    /\ ~domain_trusted(MessageOf(msg_id))
    /\ Plain(<<"get_metadata">>, {}, TRUE, FALSE, "")

\* lines 523-527
RejectKeyword ==
    /\ InLoop
    /\ msg_id \notin processed_email_ids
    /\ domain_trusted(MessageOf(msg_id))
    /\ ~keyword_found(MessageOf(msg_id))
    /\ Plain(<<"get_metadata">>, {}, TRUE, FALSE, "")

PassedCheap ==
    /\ InLoop
    /\ msg_id \notin processed_email_ids
    /\ domain_trusted(MessageOf(msg_id))
    /\ keyword_found(MessageOf(msg_id))

\* line 529: generate_content throws; nothing in main() catches it
AiCheckRaises ==
    /\ PassedCheap
    /\ Plain(<<"get_metadata", "llm_check">>, {"llm_check"}, FALSE, TRUE, "")

\* lines 529-532
AiRejects ==
    /\ PassedCheap
    /\ \E text \in AiTexts :
        /\ ~is_opportunity_ai_check(text)
        /\ Plain(<<"get_metadata", "llm_check">>, {}, TRUE, FALSE, text)

\* lines 537-540: one attachments().get per parsable attachment
AttachmentOps ==
    [i \in 1..Len(fetch_and_parse_attachments(MessageOf(msg_id).attachment_ids)) |->
        "get_attachment"]

PassedOps == <<"get_metadata", "llm_check">> \o AttachmentOps

\* whether the attachment fetches succeed (a failure is caught at line 229)
AttachmentOutcomes == IF AttachmentOps = <<>> THEN {TRUE} ELSE BOOLEAN

AttachmentFails(attOk) == IF attOk THEN {} ELSE {"get_attachment"}

\* whether append_row succeeds, where the path calls it
AppendOutcomes(resp) ==
    IF Truthy(extract_initial_details_with_ai(resp)) THEN BOOLEAN ELSE {TRUE}

\* the same without the add
known_after_append_forgotten(known, thread_id) == known

\* line 634: existing_thread_ids.add(current_thread_id)
known_after_append(known, thread_id) == known \cup {thread_id}

\* worksheet.append_row: the row goes below the last data row
append_row(sh, row) == Append(sh, row_values(row))

\* lines 626-638: the thread is not in the known set
new_path(resp, appendOk) ==
    LET extracted_data == extract_initial_details_with_ai(resp)
        T == MessageOf(msg_id).threadId
        row_to_append == format_row_from_json(T, MessageOf(msg_id), extracted_data.d)
    IN  IF ~Truthy(extracted_data)
        THEN [ops |-> <<"llm_extract">>,
              fails |-> IF resp.kind = "raise" THEN {"llm_extract"} ELSE {},
              saved |-> TRUE, aborted |-> FALSE, sheet |-> sheet,
              known |-> existing_thread_ids,
              newN |-> new_opportunities_to_notify]
        ELSE IF ~appendOk
        THEN [ops |-> <<"llm_extract", "sheet_append">>,
              fails |-> {"sheet_append"},
              saved |-> FALSE, aborted |-> TRUE, sheet |-> sheet,
              known |-> existing_thread_ids,
              newN |-> new_opportunities_to_notify]
        ELSE [ops |-> <<"llm_extract", "sheet_append">>,
              fails |-> {},
              saved |-> TRUE, aborted |-> FALSE,
              sheet |-> append_row(sheet, row_to_append),
              known |-> known_after_append(existing_thread_ids, T),
              newN |-> Append(new_opportunities_to_notify, extracted_data.d)]

\* lines 529-541 and 626-638 with the answers drawn from the given sets
NewOpportunityOn(responses, appendOutcomes) ==
    /\ PassedCheap
    /\ MessageOf(msg_id).threadId \notin existing_thread_ids
    /\ \E text \in AiTexts, attOk \in AttachmentOutcomes, resp \in responses :
      \E appendOk \in AppendOutcomes(resp) \cap appendOutcomes :
        /\ is_opportunity_ai_check(text)
        /\ LET o == new_path(resp, appendOk)
           IN  Iterate(PassedOps \o o.ops, AttachmentFails(attOk) \cup o.fails,
                       o.saved, o.sheet, o.known, o.newN,
                       updated_opportunities_to_notify, o.aborted, NoMerge,
                       text)

NewOpportunity == NewOpportunityOn(InitialResponses, BOOLEAN)

\* ------------------------------------------------------------------------
\* main(), lines 556-624: the thread is in the known set.  Every exception
\* raised inside the try block is caught at line 623, and line 640 follows.
\* ------------------------------------------------------------------------
\* the data row at a row number, () below the last one
RowAt(sh, r) == IF r \in 1..Len(sh) THEN sh[r] ELSE <<>>

\* worksheet.update at a row number: a number below the last data row
\* leaves empty rows in between
WriteAt(sh, r, vals) ==
    IF r <= Len(sh)
    THEN [sh EXCEPT ![r] = update_row(@, vals)]
    ELSE sh \o [i \in 1..(r - Len(sh) - 1) |-> <<>>] \o <<update_row(<<>>, vals)>>

\* lines 559-560: worksheet.find throws (the handler of line 623 runs, then
\* line 640), returns None (continue, which skips line 640) or a cell
find_step(findOk) ==
    LET cell_row == find(sheet, MessageOf(msg_id).threadId)
    IN  [ops |-> <<"sheet_find">>,
         fails |-> IF findOk THEN {} ELSE {"sheet_find"},
         found |-> findOk /\ cell_row # 0,
         saved |-> ~findOk,
         row |-> IF findOk THEN cell_row ELSE 0]

\* the call of lines 563-564 that throws, if any
ReadFailures == {"none", "sheet_read", "sheet_read_row"}

\* lines 563-586, the row number being that of the cell found: the two
\* row_values calls, update_details_with_ai and the merge; go tells that
\* has_changed is true
read_step(row, resp, fail) ==
    LET before == RowAt(sheet, row)
        original == original_data_dict(column_headers, row_values(before))
        updated_data_json == update_details_with_ai(resp)
        changed == changed_keys(original, updated_data_json.d)
        merged == merged_data(original, updated_data_json.d)
        reads == <<"sheet_read", "sheet_read">>
        base == [ops |-> reads \o <<"llm_delta">>, fails |-> {}, go |-> FALSE,
                 cur |-> NoCur, merge |-> NoMerge]
        merge == [tried |-> TRUE, done |-> TRUE, row |-> row, before |-> before,
                  delta |-> updated_data_json.d, after |-> before,
                  sheetBefore |-> sheet]
    IN  IF fail = "sheet_read"
        THEN [base EXCEPT !.ops = <<"sheet_read">>, !.fails = {"sheet_read"}]
        ELSE IF fail = "sheet_read_row"
        THEN [base EXCEPT !.ops = reads, !.fails = {"sheet_read"}]
        ELSE IF resp.kind = "raise"
        THEN [base EXCEPT !.fails = {"llm_delta"}]
        ELSE IF ~Truthy(updated_data_json)
        THEN [base EXCEPT !.merge = [merge EXCEPT !.done = FALSE]]
        ELSE IF changed = {}
        THEN [base EXCEPT !.merge = merge]
        ELSE [base EXCEPT
                !.go = TRUE,
                !.cur = [row |-> row, before |-> before, original |-> original,
                         delta |-> updated_data_json.d, merged |-> merged]]

\* the same with the queue append moved before the write
queue_then_write(updateOk) ==
    IF updateOk
    THEN [ops |-> <<"queue_update", "sheet_update", "sheet_format">>,
          written |-> TRUE, queued |-> TRUE]
    ELSE [ops |-> <<"queue_update", "sheet_update">>,
          written |-> FALSE, queued |-> TRUE]

\* lines 588-617, has_changed being true: worksheet.update, then the append
\* to updated_opportunities_to_notify, then the batch_update that colours
\* the changed cells; a throwing worksheet.update leaves the try block
write_then_queue(updateOk) ==
    IF updateOk
    THEN [ops |-> <<"sheet_update", "queue_update", "sheet_format">>,
          written |-> TRUE, queued |-> TRUE]
    ELSE [ops |-> <<"sheet_update">>, written |-> FALSE, queued |-> FALSE]

\* the call of lines 589-617 that throws, if any
WriteFailures == {"none", "sheet_update", "sheet_format"}

\* lines 588-617 for the merge c: the row is written at the number the cell
\* had when it was found
write_step(c, fail) ==
    LET written == WriteAt(sheet, c.row, final_row_values(column_headers, c.merged))
        w == write_then_queue(fail # "sheet_update")
    IN  [ops |-> w.ops,
         fails |-> IF fail = "none" THEN {} ELSE {fail},
         sheet |-> IF w.written THEN written ELSE sheet,
         updN |-> IF w.queued
                  THEN Append(updated_opportunities_to_notify,
                              [original |-> c.original, merged |-> c.merged])
                  ELSE updated_opportunities_to_notify,
         merge |-> [tried |-> TRUE, done |-> w.written, row |-> c.row,
                    before |-> c.before, delta |-> c.delta,
                    after |-> IF w.written THEN written[c.row]
                              ELSE RowAt(sheet, c.row),
                    sheetBefore |-> sheet]]

\* lines 529-560
FindRow ==
    /\ PassedCheap
    /\ MessageOf(msg_id).threadId \in existing_thread_ids
    /\ \E text \in AiTexts, attOk \in AttachmentOutcomes, findOk \in BOOLEAN :
        /\ is_opportunity_ai_check(text)
        /\ LET o == find_step(findOk)
           IN  IF o.found
               THEN /\ pc' = "found"
                    /\ cur' = [NoCur EXCEPT !.row = o.row]
                    /\ lastOps' = PassedOps \o o.ops
                    /\ lastFails' = AttachmentFails(attOk)
                    /\ lastAiText' = text
                    /\ lastMerge' = NoMerge
                    /\ UNCHANGED <<file, sheet, env, parked, run,
                                   processed_email_ids, existing_thread_ids,
                                   messages, idx, new_opportunities_to_notify,
                                   updated_opportunities_to_notify, sent,
                                   rowsWritten, hist, extRun, extMid>>
               ELSE Iterate(PassedOps \o o.ops,
                            AttachmentFails(attOk) \cup o.fails, o.saved,
                            sheet, existing_thread_ids,
                            new_opportunities_to_notify,
                            updated_opportunities_to_notify, FALSE, NoMerge,
                            text)

\* lines 563-586 with the answers drawn from the given sets
ReadRowOn(responses, failures) ==
    /\ pc = "found"
    /\ \E fail \in failures :
      \E resp \in IF fail = "none" THEN responses ELSE {NoJsonResp} :
        LET o == read_step(cur.row, resp, fail)
        IN  IF o.go
            THEN /\ pc' = "merged"
                 /\ cur' = o.cur
                 /\ lastOps' = lastOps \o o.ops
                 /\ UNCHANGED <<file, sheet, env, parked, run,
                                processed_email_ids, existing_thread_ids,
                                messages, idx, new_opportunities_to_notify,
                                updated_opportunities_to_notify, lastFails,
                                sent, rowsWritten, hist, extRun, extMid,
                                lastMerge, lastAiText>>
            ELSE Iterate(lastOps \o o.ops, lastFails \cup o.fails, TRUE,
                         sheet, existing_thread_ids,
                         new_opportunities_to_notify,
                         updated_opportunities_to_notify, FALSE, o.merge,
                         lastAiText)

ReadRow == ReadRowOn(DeltaResponses, ReadFailures)

\* lines 588-617: the write, its formatting and the queueing of the update
WriteRow ==
    /\ pc = "merged"
    /\ \E fail \in WriteFailures :
        LET o == write_step(cur, fail)
        IN  Iterate(lastOps \o o.ops, lastFails \cup o.fails, TRUE, o.sheet,
                    existing_thread_ids, new_opportunities_to_notify, o.updN,
                    FALSE, o.merge, lastAiText)

\* ------------------------------------------------------------------------
\* main(), lines 642-669: the end-of-run notification
\* ------------------------------------------------------------------------
\* send_telegram_message: one requests.post when the credentials are set
send_telegram_message(configured) ==
    IF configured THEN <<"notify">> ELSE <<>>

Notify ==
    /\ pc = "loop"
    /\ idx > Len(messages)
    /\ lastOps' =
          (IF new_opportunities_to_notify # <<>>
              \/ updated_opportunities_to_notify # <<>>
           THEN send_telegram_message(telegram_configured)
           ELSE <<>>)
    /\ sent' = sent + Len(lastOps')
    /\ lastFails' = {}
    /\ pc' = "done"
    /\ lastMerge' = NoMerge
    /\ lastAiText' = ""
    /\ UNCHANGED <<file, sheet, env, parked, run, processed_email_ids,
                   existing_thread_ids, messages, idx,
                   new_opportunities_to_notify,
                   updated_opportunities_to_notify, cur, rowsWritten, hist,
                   extRun, extMid>>

\* ------------------------------------------------------------------------
\* The environment: somebody deletes a data row of the sheet by hand, at
\* any point of the message loop
\* ------------------------------------------------------------------------
DeleteAt(sh, r) == SubSeq(sh, 1, r - 1) \o SubSeq(sh, r + 1, Len(sh))

ExternalDeleteRow ==
    /\ pc \in {"loop", "found", "merged"}
    /\ extRun = 0
    /\ \E r \in 1..Len(sheet) : sheet' = DeleteAt(sheet, r)
    /\ extRun' = run
    /\ extMid' = (pc # "loop")
    /\ lastMerge' = NoMerge
    /\ UNCHANGED <<file, env, parked, pc, run, processed_email_ids,
                   existing_thread_ids, messages, idx,
                   new_opportunities_to_notify,
                   updated_opportunities_to_notify, cur, lastOps, lastFails,
                   sent, rowsWritten, hist, lastAiText>>

Next ==
    \/ StartupFails
    \/ StartRun
    \/ SkipProcessed
    \/ MetadataFails
    \/ RejectDomain
    \/ RejectKeyword
    \/ AiCheckRaises
    \/ AiRejects
    \/ NewOpportunity
    \/ FindRow
    \/ ReadRow
    \/ WriteRow
    \/ Notify
    \/ ExternalDeleteRow

Spec == Init /\ [][Next]_vars

\* ------------------------------------------------------------------------
\* load_processed_emails on its own: every file content and several
\* retention windows, loaded by the start of a run with an empty mailbox
\* ------------------------------------------------------------------------
LoadIds == {IdOld, IdNine, IdSeven, IdAlmost, IdFuture, IdA, IdBad}

LoadFiles ==
    {FileAbsent, FileInvalid, FileEmpty, FileNumber}
        \cup {FileList(S) : S \in SUBSET LoadIds}

RetentionInputs == {0, 1, 7, 9, 11}

InitLoad ==
    /\ file \in LoadFiles
    /\ retention_days \in RetentionInputs
    /\ sheet = <<>>
    /\ mailbox = <<>>
    /\ telegram_configured = FALSE
    /\ run = 0
    /\ Fresh
    /\ parked = NoProcess

\* line 492 with a file whose load throws: the exception leaves main()
LoadRaises ==
    /\ pc \in {"idle", "done", "aborted"}
    /\ run < MaxRuns
    /\ load_raises(file)
    /\ run' = run + 1
    /\ pc' = "aborted"
    /\ lastOps' = <<>>
    /\ lastFails' = {"load_processed_emails"}
    /\ loadedFrom' = file
    /\ prevMessages' = messages
    /\ prevDone' = (pc = "done")
    /\ lastMerge' = NoMerge
    /\ lastAiText' = ""
    /\ UNCHANGED <<file, sheet, env, parked, processed_email_ids,
                   existing_thread_ids, messages, idx,
                   new_opportunities_to_notify,
                   updated_opportunities_to_notify, cur, sent, rowsWritten,
                   startProcessed, extRun, extMid>>

NextLoad == StartRun \/ LoadRaises

SpecLoad == InitLoad /\ [][NextLoad]_vars

\* ------------------------------------------------------------------------
\* A run killed between append_row (line 633) and save_processed_email
\* (line 640)
\* ------------------------------------------------------------------------
CrashAfterAppend ==
    /\ PassedCheap
    /\ crashed = NoCrash
    /\ MessageOf(msg_id).threadId \notin existing_thread_ids
    /\ \E text \in AiTexts, attOk \in AttachmentOutcomes, resp \in InitialResponses :
        /\ is_opportunity_ai_check(text)
        /\ Truthy(extract_initial_details_with_ai(resp))
        /\ LET o == new_path(resp, TRUE)
           IN  /\ lastOps' = PassedOps \o o.ops
               /\ lastFails' = AttachmentFails(attOk)
               /\ sheet' = o.sheet
               /\ lastAiText' = text
    /\ crashed' = [id |-> msg_id, run |-> run]
    /\ rowsWritten' = rowsWritten + 1
    /\ pc' = "aborted"
    /\ lastMerge' = NoMerge
    /\ UNCHANGED <<file, mailbox, telegram_configured, retention_days, parked,
                   run, processed_email_ids, existing_thread_ids, messages,
                   idx, new_opportunities_to_notify,
                   updated_opportunities_to_notify, cur, sent, hist, extRun,
                   extMid>>

NextCrash ==
    \/ StartupFails
    \/ StartRun
    \/ SkipProcessed
    \/ MetadataFails
    \/ RejectDomain
    \/ RejectKeyword
    \/ AiCheckRaises
    \/ AiRejects
    \/ NewOpportunity
    \/ FindRow
    \/ ReadRow
    \/ WriteRow
    \/ Notify
    \/ CrashAfterAppend

SpecCrash == Init /\ [][NextCrash]_vars

\* ------------------------------------------------------------------------
\* Two processes running main() against the same file and sheet.  The
\* variables of main() are those of the process that takes the next step;
\* parked holds those of the other one.  Nothing in main() locks the file or
\* the sheet, so the scheduler may switch between any two accesses to
\* them: a step here is one access to the file or to the sheet, with the
\* calls before it that touch neither.
\* ------------------------------------------------------------------------
Locals ==
    [pc |-> pc, processed_email_ids |-> processed_email_ids,
     existing_thread_ids |-> existing_thread_ids, messages |-> messages,
     idx |-> idx, new_opportunities_to_notify |-> new_opportunities_to_notify,
     updated_opportunities_to_notify |-> updated_opportunities_to_notify,
     sent |-> sent, rowsWritten |-> rowsWritten,
     startProcessed |-> startProcessed, cur |-> cur, lastOps |-> lastOps,
     lastFails |-> lastFails, lastMerge |-> lastMerge,
     lastAiText |-> lastAiText]

Switch ==
    /\ parked.pc # "none"
    /\ parked' = Locals
    /\ pc' = parked.pc
    /\ processed_email_ids' = parked.processed_email_ids
    /\ existing_thread_ids' = parked.existing_thread_ids
    /\ messages' = parked.messages
    /\ idx' = parked.idx
    /\ new_opportunities_to_notify' = parked.new_opportunities_to_notify
    /\ updated_opportunities_to_notify' = parked.updated_opportunities_to_notify
    /\ sent' = parked.sent
    /\ rowsWritten' = parked.rowsWritten
    /\ startProcessed' = parked.startProcessed
    /\ cur' = parked.cur
    /\ lastOps' = parked.lastOps
    /\ lastFails' = parked.lastFails
    /\ lastMerge' = parked.lastMerge
    /\ lastAiText' = parked.lastAiText
    /\ UNCHANGED <<file, sheet, env, run, loadedFrom, prevMessages, prevDone,
                   extRun, extMid>>

\* a thread with two messages, and two messages the cheap stages reject
ConcMailboxes == {<<IdB, IdA>>, <<IdD, IdC>>}

\* the answers of the language model in the runs of two processes
ConcInitialResponses == {DictResp(FullExtraction("8/10")), NoJsonResp}
ConcDeltaResponses ==
    {DictResp([k \in {"Application Deadline"} |-> "2025-08-01"]),
     DictResp([k \in {"Application Deadline"} |-> "N/A"])}

ConcNewOpportunity == NewOpportunityOn(ConcInitialResponses, BOOLEAN)
ConcReadRow == ReadRowOn(ConcDeltaResponses, ReadFailures)

InitConc ==
    \* one identifier past the retention window: the first load prunes it
    /\ file = FileList({IdOld})
    /\ sheet = <<>>
    /\ mailbox \in ConcMailboxes
    /\ telegram_configured = TRUE
    /\ retention_days = DefaultRetention
    \* earlier runs have returned: two runs are left to start
    /\ run = MaxRuns - 2
    /\ Fresh
    /\ parked = IdleProcess

NextConc ==
    \/ StartRun
    \/ PruneOpen
    \/ PruneDump
    \/ ReadKnown
    \/ SkipProcessed
    \/ MetadataFails
    \/ RejectDomain
    \/ RejectKeyword
    \/ AiCheckRaises
    \/ AiRejects
    \/ ConcNewOpportunity
    \/ FindRow
    \/ ConcReadRow
    \/ WriteRow
    \/ SaveOpen
    \/ SaveDump
    \/ Notify
    \/ Switch

SpecConc == InitConc /\ [][NextConc]_vars

\* ========================================================================
\* Properties
\* ========================================================================
HeaderAt(key) == CHOOSE c \in 1..Len(column_headers) : column_headers[c] = key

IsHeader(key) == key \in Range(column_headers)

InOps(name) == \E i \in 1..Len(lastOps) : lastOps[i] = name

WriteOps == {"sheet_append", "sheet_update", "sheet_format", "notify"}

\* the last step was the start of a run: load_processed_emails just returned
JustLoaded ==
    run >= 1 /\ lastOps \in {<<"sheet_col">>, <<"sheet_col", "mailbox_list">>}

\* the row a merge worked on, as the sheet holds it now
MergedRow == RowAt(sheet, lastMerge.row)

\* C1: when the message loop of a run has finished, every identifier of the
\* search result that was not in the processed set as loaded is in the
\* processed set and in the file
C1_AllRecorded ==
    (pc = "done") =>
        \A i \in 1..Len(messages) :
            messages[i] \notin startProcessed =>
                /\ messages[i] \in processed_email_ids
                /\ file.kind = "list"
                /\ messages[i] \in file.ids

\* C2: a run that follows a completed run with the same search result, with
\* no row deleted by hand since that run began, makes no append_row, no row
\* update, no cell-format request and sends no notification
C2_SecondRunWritesNothing ==
    (run >= 2 /\ prevDone /\ messages = prevMessages
     /\ (extRun = 0 \/ extRun < run - 1)) =>
        /\ rowsWritten = 0
        /\ sent = 0
        /\ \A i \in 1..Len(lastOps) : lastOps[i] \notin WriteOps

C2_Witness ==
    /\ run >= 2 /\ prevDone /\ messages = prevMessages /\ extRun = 0
    /\ pc = "done"
    /\ Len(messages) >= 2
    /\ Len(sheet) >= 1
    /\ Range(messages) \subseteq startProcessed

\* C3: in runs that follow one another, nobody deleting a row by hand
\* while an update was between its worksheet.find and its write, the sheet
\* never holds two rows with the same thread id
C3_OneRowPerThread ==
    ~extMid =>
        \A r1, r2 \in 1..Len(sheet) :
            Cell(sheet[r1], 1) = Cell(sheet[r2], 1) => r1 = r2

\* a row was appended in this run and a later message of the same thread has
\* just been merged into it
C3_Witness ==
    /\ new_opportunities_to_notify # <<>>
    /\ InOps("sheet_update")
    /\ lastMerge.done
    /\ Cell(MergedRow, 1) = "T1"
    /\ "T1" \notin col_values(lastMerge.sheetBefore) \/ rowsWritten >= 2

\* C4: after a merge, for every returned key that is a column of the sheet:
\* a value "N/A" or equal to the stored one leaves the stored cell as it
\* was, any other value is the stored cell
C4_MergeLaw ==
    lastMerge.done =>
        \A key \in DOMAIN lastMerge.delta :
            IsHeader(key) =>
                LET was == Cell(lastMerge.before, HeaderAt(key))
                    now == Cell(MergedRow, HeaderAt(key))
                    new == lastMerge.delta[key]
                IN  IF new = "N/A" \/ new = was THEN now = was ELSE now = new

C4_Witness ==
    /\ lastMerge.done
    /\ lastMerge.after # lastMerge.before
    /\ \E key \in DOMAIN lastMerge.delta : lastMerge.delta[key] = "N/A"
    /\ \E key \in DOMAIN lastMerge.delta :
          IsHeader(key) /\ lastMerge.delta[key] # "N/A"
          /\ lastMerge.delta[key] # Cell(lastMerge.before, HeaderAt(key))

\* what the mailbox holds, read off the messages themselves: the sender is
\* outside the trusted domain, or no keyword occurs in subject and body
CheapRejected(id) ==
    \/ MessageOf(id).sender_email = "spam@external.com"
    \/ MessageOf(id).subject = "Seminar on graphs"

\* the step that ends an iteration of the message loop
LoopStep ==
    /\ pc \in {"loop", "found", "merged"}
    /\ idx <= Len(messages)
    /\ idx' # idx \/ pc' = "aborted"

\* C5: the iteration of a message rejected by a cheap stage calls nothing
\* but the metadata fetch, leaves the sheet alone and records the
\* identifier; the AI check runs only for messages that passed both stages
C5_CheapRejectCallsNothing ==
    [][LoopStep =>
        /\ (msg_id \notin processed_email_ids /\ CheapRejected(msg_id)) =>
              /\ \A i \in 1..Len(lastOps') : lastOps'[i] = "get_metadata"
              /\ sheet' = sheet
              /\ pc' = "loop"
              /\ msg_id \in processed_email_ids'
              /\ file'.kind = "list" /\ msg_id \in file'.ids
        /\ (\E i \in 1..Len(lastOps') : lastOps'[i] = "llm_check") =>
              ~CheapRejected(msg_id)]_vars

C5_Witness ==
    /\ pc = "loop" /\ idx > 1
    /\ CheapRejected(messages[idx - 1])
    /\ lastOps = <<"get_metadata">> /\ lastFails = {}
    /\ messages[idx - 1] \in processed_email_ids
    /\ messages[idx - 1] \in file.ids
    /\ messages[idx - 1] \notin startProcessed

\* the derived ages, worked out by hand from the identifiers
ExpectedAgeMs(id) ==
    CASE id = IdOld -> 10 * MsPerDay
      [] id = IdNine -> 9 * MsPerDay
      [] id = IdSeven -> 7 * MsPerDay
      [] id = IdAlmost -> 7 * MsPerDay - 1
      [] id = IdFuture -> 0 - 209741823
      [] id = IdBad -> 0
      [] OTHER -> 2048

\* C6: when load_processed_emails returns, the set holds exactly the
\* persisted identifiers of age < retention_days (a malformed one counting
\* as age 0), and when one was dropped the file holds exactly that set
C6_PruningLaw ==
    JustLoaded =>
        /\ processed_email_ids \subseteq loadedFrom.ids
        /\ \A id \in loadedFrom.ids :
              id \in processed_email_ids
                 <=> ExpectedAgeMs(id) < retention_days * MsPerDay
        /\ (processed_email_ids # loadedFrom.ids) =>
              file = FileList(processed_email_ids)

C6_Witness ==
    /\ JustLoaded
    /\ retention_days = 7
    /\ {IdSeven, IdAlmost, IdBad, IdOld} \subseteq loadedFrom.ids
    /\ IdSeven \notin processed_email_ids
    /\ {IdAlmost, IdBad} \subseteq processed_email_ids
    /\ file = FileList(processed_email_ids)

ValidScores == {"1", "2", "3", "4", "5", "6", "7", "8", "9", "10"}

\* C7: the relevance-score cell of every row is the decimal string of an
\* integer in 1..10 whenever the language model gave a score ("N/A" or an
\* empty cell when it gave none), on the initial and on the delta path
C7_ScoreNormalized ==
    \A r \in 1..Len(sheet) :
        Cell(sheet[r], HeaderAt(ScoreKey)) \in ValidScores \cup {"N/A", ""}

\* C8: no failure of a provider call made for one message ends the run:
\* an exception leaves main() only before the message loop
C8_NeverAborts ==
    (pc = "aborted") => lastFails \subseteq {"startup", "sheet_col", "mailbox_list"}

\* C9: a run posts at most one notification, only after the loop is over,
\* and (credentials set) it posts one iff it wrote at least one row
C9_NotifyIffWritten ==
    /\ sent <= 1
    /\ InOps("notify") => idx > Len(messages)
    /\ (pc \in {"done", "aborted"} /\ telegram_configured) =>
          (sent = 1 <=> rowsWritten > 0)

\* C10: nobody deleting a row by hand between the worksheet.find and the
\* write of an update, the row a merge writes differs from the row it read
\* only in the cells of the changed fields; the other rows are as they were
C10_Frame ==
    (lastMerge.done /\ ~extMid) =>
        /\ Len(sheet) = Len(lastMerge.sheetBefore)
        /\ \A r \in 1..Len(sheet) :
              r # lastMerge.row => sheet[r] = lastMerge.sheetBefore[r]
        /\ \A c \in 1..Max(Len(lastMerge.before), Len(MergedRow)) :
              \/ Cell(MergedRow, c) = Cell(lastMerge.before, c)
              \/ /\ c <= Len(column_headers)
                 /\ column_headers[c] \in DOMAIN lastMerge.delta
                 /\ lastMerge.delta[column_headers[c]] # "N/A"
                 /\ lastMerge.delta[column_headers[c]] # Cell(lastMerge.before, c)
                 /\ Cell(MergedRow, c) = lastMerge.delta[column_headers[c]]
        /\ Cell(MergedRow, 1) = Cell(lastMerge.before, 1)

C10_Witness ==
    /\ lastMerge.done
    /\ InOps("sheet_update")
    /\ Len(sheet) >= 2
    /\ Len(lastMerge.before) > Len(column_headers)
    /\ \E c \in 1..Len(column_headers) :
          Cell(MergedRow, c) # Cell(lastMerge.before, c)

\* C11: the iteration of a message whose identifier is in the processed set
\* makes no provider call and leaves the set, the file and the sheet alone
C11_SkipCallsNothing ==
    [][(LoopStep /\ msg_id \in processed_email_ids) =>
          /\ lastOps' = <<>>
          /\ lastFails' = {}
          /\ processed_email_ids' = processed_email_ids
          /\ file' = file
          /\ sheet' = sheet
          /\ pc' = "loop" /\ idx' = idx + 1]_vars

C11_Witness ==
    /\ pc = "loop" /\ idx > 1
    /\ messages[idx - 1] \in startProcessed
    /\ lastOps = <<>>
    /\ file = loadedFrom

\* C12: a field the delta returns with an empty value never replaces the
\* stored value
C12_EmptyNeverOverwrites ==
    lastMerge.done =>
        \A key \in DOMAIN lastMerge.delta :
            (IsHeader(key) /\ lastMerge.delta[key] = "") =>
                Cell(MergedRow, HeaderAt(key))
                    = Cell(lastMerge.before, HeaderAt(key))

\* a returned field that differs from the stored cell and is not "N/A",
\* read off the row as it was and the delta as it came
FieldChanged(m) ==
    \E key \in DOMAIN m.delta :
        /\ IsHeader(key)
        /\ m.delta[key] # "N/A"
        /\ m.delta[key] # Cell(m.before, HeaderAt(key))

PosIn(ops, name) == CHOOSE i \in 1..Len(ops) : ops[i] = name

OpIn(ops, name) == \E i \in 1..Len(ops) : ops[i] = name

\* C13: in a step of the update path that got a delta back, worksheet.update
\* is called iff a field changed; the update is queued and the highlight
\* request issued iff that call was made and did not throw, the queue append
\* coming after the write; with no change (the delta empty or unparseable
\* included) the sheet and the queue stay as they were
C13_WriteQueueIffChanged ==
    [][(LoopStep /\ lastMerge'.tried) =>
        LET m == lastMerge'
            ops == lastOps'
            queued == Len(updated_opportunities_to_notify')
                        - Len(updated_opportunities_to_notify)
            wrote == OpIn(ops, "sheet_update") /\ "sheet_update" \notin lastFails'
        IN  /\ OpIn(ops, "sheet_update") <=> FieldChanged(m)
            /\ OpIn(ops, "queue_update") <=> wrote
            /\ OpIn(ops, "sheet_format") <=> wrote
            /\ queued = (IF wrote THEN 1 ELSE 0)
            /\ wrote => /\ PosIn(ops, "sheet_update") < PosIn(ops, "queue_update")
                        /\ RowAt(sheet', m.row) # RowAt(sheet, m.row)
            /\ ~wrote => sheet' = sheet]_vars

\* the three outcomes: a write that queued, a write that threw, no change
C13_Witness ==
    /\ lastMerge.tried /\ FieldChanged(lastMerge)
    /\ InOps("sheet_update") /\ "sheet_update" \in lastFails
    /\ updated_opportunities_to_notify # <<>>

\* an answer of the AI check that holds "yes", read off the answer itself
SaysYes(text) == text \in {"Yes, it is.", "YES", "yes"}

\* C14: attachments are fetched only in the iteration of a message that is
\* not in the processed set, whose metadata fetch succeeded, that passed
\* the domain and the keyword filter and that the AI check accepted; the
\* metadata fetch and the AI check come before the first attachment fetch
C14_AttachmentsLast ==
    [][(LoopStep /\ OpIn(lastOps', "get_attachment")) =>
        /\ msg_id \notin processed_email_ids
        /\ ~CheapRejected(msg_id)
        /\ "get_metadata" \notin lastFails'
        /\ "llm_check" \notin lastFails'
        /\ SaysYes(lastAiText')
        /\ lastOps'[1] = "get_metadata"
        /\ lastOps'[2] = "llm_check"
        /\ \A i \in 1..Len(lastOps') :
              lastOps'[i] \in {"get_metadata", "llm_check"} => i <= 2]_vars

C14_Witness ==
    /\ InOps("get_attachment")
    /\ SaysYes(lastAiText)
    /\ "get_attachment" \in lastFails

\* C15: load_processed_emails never throws, whatever the file holds, and for
\* an absent or unparsable file it returns the empty set and leaves the file
\* as it was
C15_LoadFailsSoft ==
    /\ "load_processed_emails" \notin lastFails
    /\ (JustLoaded /\ loadedFrom.kind \in {"absent", "invalid"}) =>
          processed_email_ids = {} /\ file = loadedFrom

RowsOf(sh, thread_id) == {r \in 1..Len(sh) : Cell(sh[r], 1) = thread_id}

\* C17: in the run that follows a run killed after append_row for thread T
\* and before the identifier was recorded, the message is not in the
\* processed set, T is in the known set, the iteration makes no append_row
\* and, when the AI check accepts the message again, takes the update path;
\* the sheet keeps one row for T.  In every iteration that is not killed a
\* changed sheet comes with the identifier recorded.
C17_CrashThenMerge ==
    [][LoopStep =>
        /\ (crashed.id = msg_id /\ run = crashed.run + 1) =>
              LET T == MessageOf(msg_id).threadId
              IN  /\ msg_id \notin processed_email_ids
                  /\ T \in existing_thread_ids
                  /\ ~OpIn(lastOps', "sheet_append")
                  /\ ~OpIn(lastOps', "llm_extract")
                  /\ OpIn(lastOps', "get_metadata")
                  /\ SaysYes(lastAiText') => OpIn(lastOps', "sheet_find")
                  /\ Cardinality(RowsOf(sheet', T)) = 1
        /\ (sheet' # sheet /\ crashed' = crashed) =>
              /\ msg_id \in processed_email_ids'
              /\ file' = FileList(processed_email_ids')]_vars

C17_Witness ==
    /\ crashed.id = IdA /\ run = crashed.run + 1
    /\ pc = "loop" /\ idx > 1 /\ messages[idx - 1] = crashed.id
    /\ lastMerge.tried
    /\ InOps("sheet_find") /\ ~InOps("sheet_append")
    /\ Cardinality(RowsOf(sheet, "T1")) = 1
    /\ crashed.id \in processed_email_ids

\* C16: two processes running main() against the same file and sheet are
\* held together by nothing but what each of them does alone: a run appends
\* at most one row per thread, so with two runs a thread has at most two
\* rows, and every write of the file empties it, or leaves the whole
\* in-memory set of the process that writes and nothing of the other's, or
\* (the text of that set being shorter than what the other process wrote
\* since the open) leaves a file of the same length that is no JSON.  The
\* witness is the interleaving the claim names: two rows for one thread,
\* and a file that has lost an identifier the other process recorded.
C16_RunsUncoordinated ==
    /\ [](\A r \in 1..Len(sheet) :
            Cardinality(RowsOf(sheet, Cell(sheet[r], 1))) <= 2)
    /\ [][file' # file =>
            \/ file' \in {FileEmpty, FileList(processed_email_ids')}
            \/ /\ file'.kind = "invalid" /\ file'.len = file.len
               /\ TextLen(processed_email_ids') < file.len]_vars

C16_Witness ==
    /\ parked.pc \in {"loop", "done"}
    /\ pc \in {"loop", "done"}
    /\ Cardinality(RowsOf(sheet, "T1")) = 2
    /\ new_opportunities_to_notify # <<>>
    /\ parked.new_opportunities_to_notify # <<>>
    /\ file.kind = "list"
    /\ \E id \in parked.processed_email_ids \ parked.startProcessed :
          id \notin file.ids

====
